---- MODULE Spec2Model ----
(***************************************************************************)
(* astropandas/dataframe.py: the byte-order normalizer _convert_byteorder, *)
(* the read path read_fits (FITS -> DataFrame) and the write path to_fits  *)
(* (DataFrame -> FITS), over either FITS codec binding (fitsio, astropy).  *)
(*                                                                         *)
(* A column buffer is [dtype, elems]: dtype is [order, kind, size] with    *)
(* order the first character of numpy's dtype.str ("<" little, ">" big,    *)
(* "|" not applicable) and elems the elements, each the sequence of its    *)
(* bytes in memory order.                                                  *)
(***************************************************************************)
EXTENDS Integers, Sequences, FiniteSets, TLC

\* ------------------------------------------------------------- bounds
MaxRows == 1      \* rows of a DataFrame handed to to_fits: 0..MaxRows
MaxWrites == 2    \* table extensions one file may come to hold
MaxElems == 2     \* elements of a buffer handed to the normalizer alone

VARIABLES
    _FITSIO,     \* _FITSIO: which codec binding the import chose
    byteorder,   \* sys.byteorder of the host
    disk,        \* path -> the file's HDU list, or NoFile
    op,          \* the function being called
    pc,          \* the position inside the call
    fpath, cols, hdu, df,   \* the call's arguments
    fits,        \* the local `fits`: the codec's file handle
    data,        \* the local `data` of read_fits
    array,       \* the record batch to_fits builds for the codec
    ret,         \* the value the call returned
    exc,         \* the exception the call raised
    lateAccess,  \* history: a file-backed codec object was used after close
    lastWrite,   \* history: the last to_fits call that ran to its end
    heap,        \* normalizer probe: buffer id -> buffer (numpy storage)
    src,         \* normalizer probe: id of the input buffer
    orig,        \* normalizer probe: the input buffer as first handed in
    res,         \* normalizer probe: result of _convert_byteorder(src)
    res2,        \* normalizer probe: result of normalizing the result again
    npc,         \* normalizer probe: position
    mutated      \* normalizer probe: the source was written after the call

hostVars == <<_FITSIO, byteorder>>
ioVars == <<disk, op, pc, fpath, cols, hdu, df, fits, data, array, ret, exc, lateAccess, lastWrite>>
normVars == <<heap, src, orig, res, res2, npc, mutated>>
vars == <<hostVars, ioVars, normVars>>

\* ------------------------------------------------------ bytes and dtypes

Reverse(s) == [i \in 1..Len(s) |-> s[Len(s) + 1 - i]]

RECURSIVE BigValue(_)
\* The number a byte sequence spells, most significant byte first.
BigValue(b) ==
    IF b = <<>> THEN 0
    ELSE BigValue(SubSeq(b, 1, Len(b) - 1)) * 256 + b[Len(b)]

RECURSIVE BigBytes(_, _)
\* The `size` bytes of v, most significant first.
BigBytes(v, size) ==
    IF size = 0 THEN <<>>
    ELSE Append(BigBytes(v \div 256, size - 1), v % 256)

\* An element's bytes most significant first, whatever its storage order.
Canon(b, order) == IF order = "<" THEN Reverse(b) ELSE b

\* The numeric value numpy reads from an element stored in `order`.
Value(b, order) == BigValue(Canon(b, order))

\* The bytes numpy stores for value v in `order`.
Encode(v, size, order) ==
    IF order = "<" THEN Reverse(BigBytes(v, size)) ELSE BigBytes(v, size)

DType(order, kind, size) == [order |-> order, kind |-> kind, size |-> size]

\* sys.byteorder as the dtype character it stands for.
NativeOrder == IF byteorder = "little" THEN "<" ELSE ">"

\* dtype.str.startswith(("<", ">"))
Tagged(dtype) == dtype.order \in {"<", ">"}

\* The dtype numpy gives a value of this kind and size on this host.
NativeDType(kind, size) == DType(IF size = 1 \/ kind \in {"S", "V"} THEN "|" ELSE NativeOrder, kind, size)

\* ------------------------------------------------- _convert_byteorder

\* ndarray.astype(dtype, casting="equiv", copy=False) reinterpreting the bytes
\* in place (what ndarray.view would do): the bytes are kept, the tag changes.
AstypeView(buf, dtype) ==
    IF dtype = buf.dtype
    THEN [err |-> "none", shared |-> TRUE, buf |-> buf]
    ELSE [err |-> "none", shared |-> FALSE, buf |-> [dtype |-> dtype, elems |-> buf.elems]]

\* ndarray.astype(dtype, casting="equiv", copy=False): the array itself when
\* the dtype is already the one asked for; else, if only the byte order
\* differs, a new array with every element's bytes swapped; else TypeError.
Astype(buf, dtype) ==
    IF dtype = buf.dtype
    THEN [err |-> "none", shared |-> TRUE, buf |-> buf]
    ELSE IF dtype.kind = buf.dtype.kind /\ dtype.size = buf.dtype.size
    THEN [err |-> "none", shared |-> FALSE,
          buf |-> [dtype |-> dtype,
                   elems |-> [i \in 1..Len(buf.elems) |-> Reverse(buf.elems[i])]]]
    ELSE [err |-> "TypeError", shared |-> FALSE, buf |-> buf]

\* Lines 16-24: the dtype to convert to.
TargetDType(dtype) ==
    IF Tagged(dtype)
    THEN IF byteorder = "little" THEN DType("<", dtype.kind, dtype.size)
         ELSE IF byteorder = "big" THEN DType(">", dtype.kind, dtype.size)
         ELSE dtype
    ELSE dtype

\* A normalizer that refuses widths other than 1, 2, 4, 8 and compound types.
ConvertByteorderStrict(buf) ==
    IF buf.dtype.size \notin {1, 2, 4, 8} \/ buf.dtype.kind = "V"
    THEN [err |-> "TypeMismatch", shared |-> FALSE, buf |-> buf]
    ELSE Astype(buf, TargetDType(buf.dtype))

\* A normalizer that always copies.
ConvertByteorderCopy(buf) ==
    [err |-> "none", shared |-> FALSE, buf |-> Astype(buf, TargetDType(buf.dtype)).buf]

\* Lines 15-25.
_convert_byteorder(buf) == Astype(buf, TargetDType(buf.dtype))

\* ------------------------------------------------ files and DataFrames

Paths == {"t.fits"}

None == [tag |-> "None"]
NoFile == [exists |-> FALSE, hdus |-> <<>>]
PrimaryHDU == [type |-> "image"]

\* Sample columns: a is a 4-byte integer, b an 8-byte float, c a boolean.
SampleKind(name) == IF name = "a" THEN "i" ELSE IF name = "b" THEN "f" ELSE "b"
SampleSize(name) == IF name = "a" THEN 4 ELSE IF name = "b" THEN 8 ELSE 1
\* Row r of a sample column (a float by its bit pattern); row 1 of a is 1.
SampleValue(name, r) ==
    IF name = "a" THEN 1 + 257 * (r - 1)
    ELSE IF name = "b" THEN 2 + 3 * (r - 1)
    ELSE r % 2

Schemas == { <<"a">>, <<"b", "a">>, <<"c", "b", "a">> }

\* The column lists a caller asks for; "zz" is in no schema.
ColRequests == { <<"a">>, <<"a", "b">>, <<"a", "c">>, <<"c", "a">>, <<"zz", "a">>, <<"a", "zz">> }
NoCols == [given |-> FALSE, names |-> <<>>]
ColsArgs == {NoCols} \cup { [given |-> TRUE, names |-> c] : c \in ColRequests }

\* A DataFrame: its columns in order, each a name and a native-order buffer.
SampleFrame(schema, n) ==
    [i \in 1..Len(schema) |->
        [name |-> schema[i],
         buf |-> [dtype |-> NativeDType(SampleKind(schema[i]), SampleSize(schema[i])),
                  elems |-> [r \in 1..n |->
                      Encode(SampleValue(schema[i], r), SampleSize(schema[i]), NativeOrder)]]]]

Frames == { SampleFrame(s, n) : s \in Schemas, n \in 0..MaxRows }

Names(columns) == [i \in 1..Len(columns) |-> columns[i].name]
Range(s) == { s[i] : i \in 1..Len(s) }

\* len(df)
Rows(frame) == IF frame = <<>> THEN 0 ELSE Len(frame[1].buf.elems)

\* The binary table extension the codec stores for a record batch: FITS keeps
\* every value most significant byte first.
TableHDU(batch) ==
    [type |-> "table",
     fields |-> [i \in 1..Len(batch.fields) |->
        LET f == batch.fields[i] IN
        [name |-> f.name, kind |-> f.buf.dtype.kind, size |-> f.buf.dtype.size,
         cells |-> [r \in 1..Len(f.buf.elems) |-> Canon(f.buf.elems[r], f.buf.dtype.order)]]]]

Tables(file) == SelectSeq(file.hdus, LAMBDA h : h.type = "table")

\* The buffer the codec hands back for a stored field, in byte order o.
FieldBuffer(f, o) ==
    LET order == IF f.size = 1 THEN "|" ELSE o IN
    [dtype |-> DType(order, f.kind, f.size),
     elems |-> [r \in 1..Len(f.cells) |-> Canon(f.cells[r], order)]]

\* The extension's rows as the codec hands them back, field i in order o[i].
CodecRead(fields, o) ==
    [i \in 1..Len(fields) |->
        [name |-> fields[i].name, buf |-> FieldBuffer(fields[i], o[i])]]

\* fitsio column subset in the order of the request.
FitsioSelectAsRequested(fields, names) ==
    [i \in 1..Len(names) |->
        fields[CHOOSE k \in 1..Len(fields) : fields[k].name = names[i]]]

\* fitsio: fits[hdu][cols] reads the requested columns by their column
\* numbers, unique and sorted, so in the order of the extension's schema.
FitsioSelect(fields, names) == SelectSeq(fields, LAMBDA f : f.name \in Range(names))

\* fitsio: the first requested name that the schema lacks, by request order.
FirstMissing(fields, names) ==
    names[CHOOSE i \in 1..Len(names) :
            /\ names[i] \notin Range(Names(fields))
            /\ \A j \in 1..(i - 1) : names[j] \in Range(Names(fields))]

\* The record batch built from the columns in reverse order.
ToFitsBatchReversed(frame) ==
    [nrows |-> Rows(frame), fields |-> Reverse(frame)]

\* Lines 79-82 (fitsio: a structured array with one field per df.dtypes item,
\* len(df) rows, each column assigned) and 86-88 (astropy: one Column per
\* df.columns entry).
ToFitsBatch(frame) ==
    [nrows |-> Rows(frame), fields |-> frame]

\* Lines 60-62: one DataFrame column per field of data.dtype.fields, each
\* passed through _convert_byteorder.
DataFrameOf(fields) ==
    [i \in 1..Len(fields) |->
        [name |-> fields[i].name, buf |-> _convert_byteorder(fields[i].buf).buf]]

ConvertFails(fields) ==
    \E i \in 1..Len(fields) : _convert_byteorder(fields[i].buf).err # "none"

Done == {"returned", "raised"}
Rest == {"idle"} \cup Done

IOIdle ==
    /\ disk = [p \in Paths |-> NoFile]
    /\ op = "none" /\ pc = "idle"
    /\ fpath = "t.fits" /\ cols = NoCols /\ hdu = 1 /\ df = <<>>
    /\ fits = "none" /\ data = None /\ array = None
    /\ ret = None /\ exc = None /\ lateAccess = FALSE
    /\ lastWrite = None

NormIdle ==
    /\ heap = [i \in {1, 2, 3} |-> [free |-> TRUE]]
    /\ src = 1 /\ orig = [free |-> TRUE]
    /\ res = [id |-> 0, err |-> "unset"] /\ res2 = [id |-> 0, err |-> "unset"]
    /\ npc = "off" /\ mutated = FALSE

Init ==
    /\ _FITSIO \in BOOLEAN
    /\ byteorder \in {"little", "big"}
    /\ IOIdle
    /\ NormIdle

\* A caller calls read_fits(p, cols=c, hdu=h).
ReadFitsCall(p, c, h) ==
    /\ pc \in Rest
    /\ op' = "read_fits" /\ pc' = "open"
    /\ fpath' = p /\ cols' = c /\ hdu' = h /\ df' = <<>>
    /\ fits' = "none" /\ data' = None /\ array' = None
    /\ ret' = None /\ exc' = None /\ lateAccess' = FALSE
    /\ UNCHANGED <<disk, lastWrite, hostVars, normVars>>

\* Line 47 / line 54: open the file.
ReadOpen ==
    /\ op = "read_fits" /\ pc = "open"
    /\ IF disk[fpath].exists
       THEN fits' = "open" /\ pc' = "extract" /\ exc' = exc
       ELSE fits' = fits /\ pc' = "raised" /\ exc' = [tag |-> "NotFound", column |-> ""]
    /\ UNCHANGED <<disk, op, fpath, cols, hdu, df, data, array, ret, lateAccess,
                   lastWrite, hostVars, normVars>>

\* Lines 48-51 (fitsio: the extension's rows are read into a record array;
\* an exception leaves `fits` as it is) and 55-58 (astropy: `data` is the HDU
\* object, which has no item access; an exception leaves the with block,
\* which closes the file).
ReadExtract ==
    /\ op = "read_fits" /\ pc = "extract"
    /\ LET hdus == disk[fpath].hdus
           found == hdu + 1 <= Len(hdus)
           fields == hdus[hdu + 1].fields
       IN
       IF _FITSIO
       THEN /\ fits' = fits
            /\ IF ~found
               THEN /\ exc' = [tag |-> "NoExtension", column |-> ""]
                    /\ pc' = "raised" /\ data' = data
               ELSE IF cols.given /\ ~(Range(cols.names) \subseteq Range(Names(fields)))
               THEN /\ exc' = [tag |-> "NoColumn", column |-> FirstMissing(fields, cols.names)]
                    /\ pc' = "raised" /\ data' = data
               ELSE /\ \E o \in [1..Len(fields) -> {"<", ">"}] :
                         LET rows == CodecRead(fields, o) IN
                         data' = [tag |-> "recarray",
                                  fields |-> IF cols.given
                                             THEN FitsioSelect(rows, cols.names)
                                             ELSE rows]
                    /\ pc' = "close" /\ exc' = exc
       ELSE IF ~found
            THEN /\ exc' = [tag |-> "NoExtension", column |-> ""]
                 /\ pc' = "raised" /\ data' = data /\ fits' = "closed"
            ELSE IF cols.given
            THEN /\ exc' = [tag |-> "NotSubscriptable", column |-> ""]
                 /\ pc' = "raised" /\ data' = data /\ fits' = "closed"
            ELSE /\ data' = [tag |-> "hdu", index |-> hdu]
                 /\ pc' = "close" /\ exc' = exc /\ fits' = fits
    /\ UNCHANGED <<disk, op, fpath, cols, hdu, df, array, ret, lateAccess,
                   lastWrite, hostVars, normVars>>

\* Line 52 / the end of the with block of line 54.
ReadClose ==
    /\ op = "read_fits" /\ pc = "close"
    /\ fits' = "closed" /\ pc' = "assemble"
    /\ UNCHANGED <<disk, op, fpath, cols, hdu, df, data, array, ret, exc, lateAccess,
                   lastWrite, hostVars, normVars>>

\* Lines 60-63: data.dtype.fields is read; an HDU object has no dtype.
ReadAssemble ==
    /\ op = "read_fits" /\ pc = "assemble"
    /\ IF data.tag = "hdu"
       THEN /\ lateAccess' = (fits # "open")
            /\ exc' = [tag |-> "NoDtypeAttribute", column |-> ""]
            /\ pc' = "raised" /\ ret' = ret
       ELSE IF ConvertFails(data.fields)
       THEN /\ exc' = [tag |-> "TypeError", column |-> ""]
            /\ pc' = "raised" /\ ret' = ret /\ lateAccess' = lateAccess
       ELSE /\ ret' = [tag |-> "DataFrame", columns |-> DataFrameOf(data.fields)]
            /\ pc' = "returned" /\ exc' = exc /\ lateAccess' = lateAccess
    /\ UNCHANGED <<disk, op, fpath, cols, hdu, df, fits, data, array,
                   lastWrite, hostVars, normVars>>

\* A caller calls to_fits(t, p).
ToFitsCall(t, p) ==
    /\ pc \in Rest
    /\ Len(Tables(disk[p])) < MaxWrites
    /\ op' = "to_fits" /\ pc' = "assemble"
    /\ fpath' = p /\ df' = t /\ cols' = NoCols /\ hdu' = 1
    /\ fits' = "none" /\ data' = None /\ array' = None
    /\ ret' = None /\ exc' = None /\ lateAccess' = FALSE
    /\ UNCHANGED <<disk, lastWrite, hostVars, normVars>>

\* Lines 79-82 / 86-89: the record batch for the codec.
ToFitsAssemble ==
    /\ op = "to_fits" /\ pc = "assemble"
    /\ array' = ToFitsBatch(df)
    /\ pc' = "serialize"
    /\ UNCHANGED <<disk, op, fpath, cols, hdu, df, fits, data, ret, exc, lateAccess,
                   lastWrite, hostVars, normVars>>

\* Lines 83-84 (fitsio: mode "rw" opens the file if it exists and creates it
\* otherwise; write appends a table extension, after an empty primary HDU in
\* a new file) and line 90 (astropy: writeto without overwrite refuses an
\* existing file; a new file gets a primary HDU and the table).
ToFitsSerialize ==
    /\ op = "to_fits" /\ pc = "serialize"
    /\ LET file == disk[fpath] IN
       IF _FITSIO
       THEN /\ disk' = [disk EXCEPT ![fpath] =
                    [exists |-> TRUE,
                     hdus |-> Append(IF file.exists THEN file.hdus ELSE <<PrimaryHDU>>,
                                     TableHDU(array))]]
            /\ fits' = "closed" /\ pc' = "returned" /\ exc' = exc
       ELSE IF file.exists
       THEN /\ exc' = [tag |-> "FileExists", column |-> ""]
            /\ pc' = "raised" /\ disk' = disk /\ fits' = fits
       ELSE /\ disk' = [disk EXCEPT ![fpath] =
                    [exists |-> TRUE, hdus |-> <<PrimaryHDU, TableHDU(array)>>]]
            /\ fits' = fits /\ pc' = "returned" /\ exc' = exc
    /\ lastWrite' = [tag |-> "to_fits", df |-> df, path |-> fpath]
    /\ UNCHANGED <<op, fpath, cols, hdu, df, data, array, ret, lateAccess,
                   hostVars, normVars>>

Next ==
    \/ \E p \in Paths, c \in ColsArgs, h \in 1..(MaxWrites + 1) : ReadFitsCall(p, c, h)
    \/ ReadOpen
    \/ ReadExtract
    \/ ReadClose
    \/ ReadAssemble
    \/ \E t \in Frames, p \in Paths : ToFitsCall(t, p)
    \/ ToFitsAssemble
    \/ ToFitsSerialize

Spec == Init /\ [][Next]_vars

\* ------------------------------------------- the normalizer on its own

NoBuf == [free |-> TRUE]
BufIds == {1, 2, 3}

\* Element types handed to the normalizer alone: single-byte types, raw
\* bytes, 2-, 4- and 8-byte numbers in either order, a 16-byte float
\* (np.longdouble) in either order, and a compound (structured) type.
NormDTypes ==
    { DType("|", "i", 1), DType("|", "b", 1), DType("|", "S", 3), DType("|", "V", 8) }
    \cup { DType(o, "i", 2) : o \in {"<", ">"} }
    \cup { DType(o, "i", 4) : o \in {"<", ">"} }
    \cup { DType(o, "f", 8) : o \in {"<", ">"} }
    \cup { DType(o, "f", 16) : o \in {"<", ">"} }

\* Sample elements of `size` bytes: zero, 1 stored most-significant-first,
\* 1 stored least-significant-first, and the bytes 1, 2, ..., size.
Patterns(size) ==
    { [i \in 1..size |-> 0],
      [i \in 1..size |-> IF i = size THEN 1 ELSE 0],
      [i \in 1..size |-> IF i = 1 THEN 1 ELSE 0],
      [i \in 1..size |-> i] }

InputBuffers ==
    { [dtype |-> d, elems |-> e] :
        d \in NormDTypes,
        e \in UNION { [1..n -> UNION { Patterns(dd.size) : dd \in NormDTypes }] : n \in 0..MaxElems } }

WellFormed(buf) == \A i \in 1..Len(buf.elems) : buf.elems[i] \in Patterns(buf.dtype.size)

\* The first free buffer id: where numpy puts a new array.
Alloc(h) == CHOOSE i \in BufIds : h[i] = NoBuf /\ \A j \in BufIds : j < i => h[j] # NoBuf

\* _convert_byteorder on the array with identity `id`: the identity of the
\* array it returns (the same one when astype shares, a new one otherwise).
ConvertOnHeap(h, id) ==
    LET r == _convert_byteorder(h[id]) IN
    IF r.err # "none" THEN [heap |-> h, id |-> 0, err |-> r.err]
    ELSE IF r.shared THEN [heap |-> h, id |-> id, err |-> "none"]
    ELSE LET n == Alloc(h) IN [heap |-> [h EXCEPT ![n] = r.buf], id |-> n, err |-> "none"]

NoResult == [id |-> 0, err |-> "unset"]

NormInit ==
    /\ byteorder \in {"little", "big"}
    /\ \E b \in InputBuffers :
          /\ WellFormed(b)
          /\ heap = [i \in BufIds |-> IF i = 1 THEN b ELSE NoBuf]
          /\ orig = b
    /\ src = 1
    /\ res = NoResult /\ res2 = NoResult
    /\ npc = "start" /\ mutated = FALSE
    /\ _FITSIO = TRUE
    /\ IOIdle

\* res = _convert_byteorder(src)
Normalize ==
    /\ npc = "start"
    /\ LET r == ConvertOnHeap(heap, src) IN
          /\ heap' = r.heap
          /\ res' = [id |-> r.id, err |-> r.err]
    /\ npc' = "normalized"
    /\ UNCHANGED <<src, orig, res2, mutated, hostVars, ioVars>>

\* The caller writes an element of the source array after the call.
MutateSource ==
    /\ npc \in {"normalized", "renormalized"}
    /\ ~mutated
    /\ \E i \in 1..Len(heap[src].elems) : \E p \in Patterns(heap[src].dtype.size) :
          /\ p # heap[src].elems[i]
          /\ heap' = [heap EXCEPT ![src].elems[i] = p]
    /\ mutated' = TRUE
    /\ UNCHANGED <<src, orig, res, res2, npc, hostVars, ioVars>>

\* res2 = _convert_byteorder(res)
NormalizeAgain ==
    /\ npc = "normalized"
    /\ res.err = "none"
    /\ LET r == ConvertOnHeap(heap, res.id) IN
          /\ heap' = r.heap
          /\ res2' = [id |-> r.id, err |-> r.err]
    /\ npc' = "renormalized"
    /\ UNCHANGED <<src, orig, res, mutated, hostVars, ioVars>>

NormNext == Normalize \/ MutateSource \/ NormalizeAgain

SpecNorm == NormInit /\ [][NormNext]_vars

\* ------------------------------------------------------------ claims

ReadDone == op = "read_fits" /\ pc \in Done
ReadReturned == op = "read_fits" /\ pc = "returned"
\* The schema of the extension the current read names.
SchemaNames == Names(disk[fpath].hdus[hdu + 1].fields)

\* C1: to_fits(T, p) followed by read_fits(p) returns a Table equal to T,
\* column for column and value for value, same rows, same column order.
C1_RoundTrip ==
    (ReadDone /\ lastWrite # None /\ lastWrite.path = fpath /\ ~cols.given /\ hdu = 1)
        => (pc = "returned" /\ ret = [tag |-> "DataFrame", columns |-> lastWrite.df])

\* C2 as stated: the returned Table's column sequence is the requested list in
\* the order of the request, or the whole schema in order when none is given.
C2_RequestOrder ==
    ReadReturned =>
        Names(ret.columns) = IF cols.given THEN cols.names ELSE SchemaNames

\* C2 amended: the returned Table holds exactly the requested columns, in the
\* order of the extension's schema, or the whole schema in order when no list
\* is given; no column is dropped.
C2_SchemaOrder ==
    ReadReturned =>
        /\ Names(ret.columns) =
              IF cols.given
              THEN SelectSeq(SchemaNames, LAMBDA n : n \in Range(cols.names))
              ELSE SchemaNames
        /\ cols.given => Range(Names(ret.columns)) = Range(cols.names)

C2_Witness ==
    /\ ReadReturned /\ cols.given
    /\ Len(ret.columns) = 2
    /\ Names(ret.columns) # cols.names

\* C3: when read_fits has returned or raised, the handle it opened is closed.
C3_HandleReleased == ReadDone => fits # "open"

\* C4: read_fits with a column list naming a column the schema lacks raises
\* an error naming that column and returns no Table.
C4_MissingColumn ==
    (/\ ReadDone /\ cols.given
     /\ disk[fpath].exists /\ hdu + 1 <= Len(disk[fpath].hdus)
     /\ ~(Range(cols.names) \subseteq Range(SchemaNames)))
        => /\ pc = "raised" /\ ret = None
           /\ exc.tag = "NoColumn"
           /\ exc.column \in Range(cols.names) \ Range(SchemaNames)

\* C5: every column of a returned Table has the host's native byte order, the
\* kind and width of the buffer the codec handed over, and element for
\* element the same numeric values, whatever order the codec used.
C5_NativeValues ==
    ReadReturned =>
        /\ Len(ret.columns) = Len(data.fields)
        /\ \A i \in 1..Len(data.fields) :
              LET in == data.fields[i].buf
                  out == ret.columns[i].buf
              IN /\ out.dtype = NativeDType(in.dtype.kind, in.dtype.size)
                 /\ Len(out.elems) = Len(in.elems)
                 /\ \A r \in 1..Len(in.elems) :
                       Value(out.elems[r], out.dtype.order) = Value(in.elems[r], in.dtype.order)

\* A big-endian 4-byte 1 (00 00 00 01) read on a little-endian host as 1.
C5_Witness ==
    /\ ReadReturned /\ byteorder = "little"
    /\ \E i \in 1..Len(data.fields) :
          /\ data.fields[i].buf.dtype = DType(">", "i", 4)
          /\ Len(data.fields[i].buf.elems) > 0
          /\ data.fields[i].buf.elems[1] = <<0, 0, 0, 1>>
          /\ Value(ret.columns[i].buf.elems[1], ret.columns[i].buf.dtype.order) = 1

NormDone == npc \in {"normalized", "renormalized"}
FastPath == orig.dtype.order \in {"|", NativeOrder}

\* C6: for a buffer already in native order, or of a type without byte order,
\* _convert_byteorder returns the input array itself, so a later write to the
\* source shows in the result; normalizing a result returns that result.
C6_NoCopyFastPath ==
    NormDone =>
        /\ FastPath =>
              /\ res.err = "none" /\ res.id = src
              /\ mutated => (heap[res.id] # orig /\ heap[res.id] = heap[src])
        /\ npc = "renormalized" => (res2.err = "none" /\ res2.id = res.id)

C6_Witness ==
    /\ npc = "renormalized" /\ mutated /\ FastPath
    /\ orig.dtype.size = 1

\* The types C7 is about: a byte-order tag with a width other than 2, 4, 8,
\* or a compound type.
C7Case == (Tagged(orig.dtype) /\ orig.dtype.size \notin {2, 4, 8}) \/ orig.dtype.kind = "V"

\* C7 as stated: for such a type the normalizer signals an error and returns
\* no buffer.
C7_TypeMismatch == (NormDone /\ C7Case) => res.err # "none"

\* C7 amended: for such a type the normalizer signals no error: a tagged type
\* of any width is converted to native order with its kind, width and values
\* kept, and a compound type, which carries no tag, is passed through.
C7_NoTypeMismatch ==
    (NormDone /\ C7Case) =>
        /\ res.err = "none"
        /\ Tagged(orig.dtype) =>
              /\ heap[res.id].dtype = DType(NativeOrder, orig.dtype.kind, orig.dtype.size)
              /\ (~mutated \/ res.id # src) =>
                    /\ Len(heap[res.id].elems) = Len(orig.elems)
                    /\ \A i \in 1..Len(orig.elems) :
                          Canon(heap[res.id].elems[i], NativeOrder)
                             = Canon(orig.elems[i], orig.dtype.order)
        /\ ~Tagged(orig.dtype) => res.id = src

C7_Witness ==
    /\ npc = "normalized" /\ orig.dtype.size = 16
    /\ orig.dtype.order # NativeOrder
    /\ Len(orig.elems) > 0
    /\ res.id # src

\* C8: when to_fits has returned, the file at the path holds exactly one binary
\* table extension, the Table of this call.
C8_SingleExtension ==
    (op = "to_fits" /\ pc = "returned") =>
        disk[fpath] = [exists |-> TRUE,
                       hdus |-> <<PrimaryHDU, TableHDU([nrows |-> Rows(df), fields |-> df])>>]

\* C9: no file-backed object of the codec is used after the handle is closed.
C9_AccessWhileOpen == ~lateAccess

====
